---- MODULE Spec2Model ----
(***************************************************************************)
(* hs-invoice-manager: the OAuth token lifecycle (CSRF state registry,     *)
(* token store, refresh-before-expiry) and the overdue-invoice bulk        *)
(* archive workflow of the Express server.                                 *)
(*                                                                         *)
(* The repository holds two revisions of the OAuth routes:                 *)
(*   "query"   src/server/routes.ts lines 1-445 (portalId in the query,    *)
(*             demo/mock answers when no client can be built)              *)
(*   "session" src/unnamed/part_001 lines 250-792 (portalId in the         *)
(*             session, 401 notConnected when no client can be built)      *)
(* The variable rev says which one the server runs; it never changes.      *)
(*                                                                         *)
(* Time is Date.now() in milliseconds.  CSRF state strings are modelled    *)
(* by the order in which generateOAuthState produced them (1, 2, ...):     *)
(* 32 random characters out of 62 are taken never to repeat and never to   *)
(* be guessed before they are issued.  Forged stands for any string the    *)
(* server never issued.  Rejections of the provider client are taken to    *)
(* carry an Error object.                                                  *)
(***************************************************************************)
EXTENDS Integers, Sequences, FiniteSets, TLC

\* ---------------------------------------------------------------- bounds
MaxTicks == 2
MaxCallbacks == 1
MaxReqs == 2
MaxStates == 1
MaxMint == 2
MaxInvoices == 2
MaxIssues == 3
MaxDeals == 2

\* ------------------------------------------------------ program constants
\* cleanupOAuthStates: 10 * 60 * 1000 ms
TenMinutesMs == 10 * 60 * 1000
\* getHubSpotClient: token.expiresAt <= now + 60
RefreshSkew == 60

\* the clock advances in steps of ten minutes
TickMs == 10 * 60 * 1000
\* lifetimes (expiresIn, seconds) the provider may report
Lifetimes == {660}

Portals == {"p1"}
\* hubId?.toString() || "unknown"
UnknownPortal == "unknown"
\* req.query.portalId absent (or the empty string): falsy
NoPortal == ""
Forged == 0
MissingState == -1
PrivateHandle == -1
NoHandle == 0

Callbacks == 1..MaxCallbacks
Reqs == 1..MaxReqs

VARIABLES
  now,          \* Date.now(), ms
  cfg,          \* process.env: which credentials are configured
  rev,          \* which revision of the OAuth routes is deployed
  oauthStates,  \* Map<string, {createdAt}>
  issued,       \* number of states generateOAuthState has produced
  tokens,       \* MemStorage.tokens: Map<portalId, HubspotToken>
  minted,       \* number of token grants the provider has made
  checked,      \* the states some callback has already looked up
  cb,           \* GET /auth/hubspot/callback requests in flight, one per slot
  req,          \* API requests in flight, one per slot
  last,         \* the request answered by the step just taken, with its answer
  crm,          \* the provider's invoices and company flag
  bulk,         \* the archive-overdue-invoices request
  single,       \* the request on one invoice (mark-invoice-bad-debt)
  view,         \* a company read with a client, and the page showing its response
  mockState     \* demo mode: the company flag and the invoices hidden so far

vars == <<now, cfg, rev, oauthStates, issued, tokens, minted, checked, cb, req, last, crm, bulk, single, view, mockState>>

\* ------------------------------------------------------------ Map helpers
EmptyMap == << >>
MapHas(m, k) == k \in DOMAIN m
MapSet(m, k, v) == [x \in (DOMAIN m) \cup {k} |-> IF x = k THEN v ELSE m[x]]
MapDelete(m, k) == [x \in (DOMAIN m) \ {k} |-> m[x]]

\* Math.floor(Date.now() / 1000)
NowSec(ms) == ms \div 1000

\* ------------------------------------------------------ CSRF state registry
cleanupOAuthStatesKeepsAll(states, ms) == states

\* cleanupOAuthStates: drop every entry with createdAt < Date.now() - 10 min
cleanupOAuthStates(states, ms) ==
  [s \in {x \in DOMAIN states : ~(states[x].createdAt < ms - TenMinutesMs)} |-> states[s]]

\* generateOAuthState: the next string never produced before
generateOAuthState(n) == n + 1

\* callback: !state || typeof state !== "string" || !oauthStates.has(state)
StateRejected(states, st) == st = MissingState \/ ~MapHas(states, st)

ConsumeStateKept(states, st) == states

\* callback: oauthStates.delete(state) once the state was found
ConsumeState(states, st) == MapDelete(states, st)

CallbackConfiguredAlways(c) == TRUE

\* callback: !HUBSPOT_CLIENT_ID || !HUBSPOT_CLIENT_SECRET answers 500 before
\* the code is exchanged
CallbackConfigured(c) == c.clientId /\ c.clientSecret

\* ------------------------------------------------------------- token store
getToken(m, p) == IF MapHas(m, p) THEN m[p] ELSE [accessToken |-> 0, refreshToken |-> 0, expiresAt |-> 0]
saveToken(m, p, rec) == MapSet(m, p, rec)
deleteToken(m, p) == MapDelete(m, p)

IsStaleAlways(token, ms) == TRUE

\* getHubSpotClient: token.expiresAt <= now + 60
IsStale(token, ms) == token.expiresAt <= NowSec(ms) + RefreshSkew

\* refreshAccessToken: !HUBSPOT_CLIENT_ID || !HUBSPOT_CLIENT_SECRET returns null
\* before any call to the provider
OAuthConfigured(c) == c.clientId /\ c.clientSecret

FallbackNever(c) == NoHandle

\* getHubSpotClient: if (HS_PRIVATE_APP_TOKEN) return client(private) else null
Fallback(c) == IF c.privateToken THEN PrivateHandle ELSE NoHandle

\* getHubSpotClient after refreshAccessToken returned null: routes.ts falls
\* through to the private-token fallback, part_001 returns null
AfterRefreshNull(rv, c) == IF rv = "query" THEN Fallback(c) ELSE NoHandle

RefreshFailureStoreKept(m, p) == m

\* refreshAccessToken, catch branch: storage.deleteToken(portalId)
RefreshFailureStore(m, p) == deleteToken(m, p)

RefreshedTokenDropsPrior(grant, rotated, prior, life, ms) ==
  [accessToken |-> grant,
   refreshToken |-> IF rotated THEN grant ELSE 0,
   expiresAt |-> NowSec(ms) + life]

\* refreshAccessToken, success: the record handed to storage.saveToken
RefreshedToken(grant, rotated, prior, life, ms) ==
  [accessToken |-> grant,
   refreshToken |-> IF rotated THEN grant ELSE prior,
   expiresAt |-> NowSec(ms) + life]

\* callback: tokenInfo.hubId?.toString() || "unknown" (routes.ts);
\* part_001 answers 500 when hubId is missing (NoPortal: nothing is saved)
CallbackPortalId(rv, hub) ==
  IF hub # NoPortal THEN hub
  ELSE IF rv = "query" THEN UnknownPortal ELSE NoPortal

\* ------------------------------------------------------------------ requests
\* a callback request: its query, how far it got and what it answered
IdleCallback ==
  [op |-> "callback", pc |-> "idle", status |-> 0, body |-> "", state |-> MissingState,
   stateChecked |-> FALSE, repeat |-> FALSE, stateOk |-> FALSE, stateAge |-> -1,
   exchanged |-> FALSE, tenantAsked |-> FALSE, tenantOk |-> FALSE, hubId |-> NoPortal,
   saved |-> FALSE, portal |-> NoPortal, grant |-> 0, expiresIn |-> 0]

\* an API request: what getHubSpotClient saw and did, and the answer;
\* recordLeft: the store still held the tenant's record when
\* refreshAccessToken returned null; again: the request before this one was a
\* disconnect of the same tenant, afterDelete: and it deleted a record;
\* rotated: the refresh answered with a refresh token of its own
IdleReq ==
  [op |-> "none", pc |-> "idle", status |-> 0, body |-> "", portal |-> NoPortal,
   found |-> FALSE, stale |-> FALSE, rt |-> 0, refreshCalls |-> 0,
   refreshFailed |-> FALSE, recordLeft |-> FALSE, handle |-> NoHandle, crmCalls |-> 0,
   again |-> FALSE, afterDelete |-> FALSE, rotated |-> FALSE]

\* no request was answered by the step just taken
NoAnswer == IdleReq

Free(rec) == rec.pc = "idle"

\* a new request takes the lowest slot that holds no request in flight
CanBegin(slots, r) == Free(slots[r]) /\ \A q \in DOMAIN slots : q < r => ~Free(slots[q])

\* the answer of a callback; tokenResult is a local of the handler and ends with it
Respond(rec, st, b) ==
  [rec EXCEPT !.pc = "done", !.status = st, !.body = b, !.grant = 0, !.expiresIn = 0]

\* the answer of an API request; its client and the refresh token it read are
\* locals of the handler and end with it
Answer(rec, st, b) ==
  [rec EXCEPT !.pc = "done", !.status = st, !.body = b, !.handle = NoHandle, !.rt = 0]

\* GET /api/company/:companyId once getHubSpotClient has returned h:
\* no client: 200 with mock data (routes.ts) or notConnected 401 (part_001)
CompanyWithClient(rv, rec, h) ==
  IF h = NoHandle
  THEN IF rv = "query" THEN Answer(rec, 200, "mock") ELSE Answer(rec, 401, "not_connected")
  ELSE [rec EXCEPT !.pc = "crm", !.handle = h]

\* ------------------------------------------------------------------- actions
Tick ==
  /\ now + TickMs <= MaxTicks * TickMs
  /\ now' = now + TickMs
  /\ last' = NoAnswer
  /\ UNCHANGED <<cfg, rev, oauthStates, issued, tokens, minted, checked, cb, req, crm, bulk, single, view, mockState>>

\* GET /auth/hubspot while fewer than limit states have been issued
Issue(limit) ==
  /\ issued < limit
  /\ cfg.clientId
  /\ oauthStates' = MapSet(cleanupOAuthStates(oauthStates, now),
                           generateOAuthState(issued), [createdAt |-> now])
  /\ issued' = issued + 1
  /\ last' = NoAnswer
  /\ UNCHANGED <<now, cfg, rev, tokens, minted, checked, cb, req, crm, bulk, single, view, mockState>>

\* GET /auth/hubspot
AuthStart == Issue(MaxStates)

\* a request that has answered leaves its slot; its record is the step's answer
Settle(slots, i, idle, nxt) == [slots EXCEPT ![i] = IF nxt.pc = "done" THEN idle ELSE nxt]
LastAfter(nxt) == IF nxt.pc = "done" THEN nxt ELSE NoAnswer

\* GET /auth/hubspot/callback, up to the first await
CallbackReceive(c, err, st, hasCode) ==
  /\ CanBegin(cb, c)
  /\ LET base == [IdleCallback EXCEPT !.state = st]
         looked == [base EXCEPT !.stateChecked = TRUE, !.repeat = (st \in checked)]
         passed == [looked EXCEPT !.stateOk = TRUE,
                                  !.stateAge = now - oauthStates[st].createdAt]
         nxt == IF err THEN Respond(base, 400, "oauth_error")
                ELSE IF StateRejected(oauthStates, st) THEN Respond(looked, 400, "invalid_state")
                ELSE IF ~hasCode THEN Respond(passed, 400, "missing_code")
                ELSE IF ~CallbackConfigured(cfg) THEN Respond(passed, 500, "not_configured")
                ELSE [passed EXCEPT !.pc = "exchanging"]
     IN /\ cb' = Settle(cb, c, IdleCallback, nxt)
        /\ last' = LastAfter(nxt)
        /\ checked' = IF err THEN checked ELSE checked \cup ({st} \ {MissingState})
        /\ oauthStates' = IF err \/ StateRejected(oauthStates, st) THEN oauthStates
                          ELSE ConsumeState(oauthStates, st)
  /\ UNCHANGED <<now, cfg, rev, issued, tokens, minted, req, crm, bulk, single, view, mockState>>

\* callback: oauth.tokensApi.create("authorization_code", ...) answered
CallbackExchanged(c, ok, life) ==
  /\ cb[c].pc = "exchanging"
  /\ ok => minted < MaxMint
  /\ LET nxt == IF ok
                THEN [cb[c] EXCEPT !.pc = "resolvingTenant", !.exchanged = TRUE,
                                   !.grant = minted + 1, !.expiresIn = life]
                ELSE Respond(cb[c], 500, "exchange_failed")
     IN /\ cb' = Settle(cb, c, IdleCallback, nxt)
        /\ last' = LastAfter(nxt)
        /\ minted' = IF ok THEN minted + 1 ELSE minted
  /\ UNCHANGED <<now, cfg, rev, oauthStates, issued, tokens, checked, req, crm, bulk, single, view, mockState>>

\* callback: oauth.accessTokensApi.get answered; save the token and redirect
CallbackTenant(c, ok, hub) ==
  /\ cb[c].pc = "resolvingTenant"
  /\ LET asked == [cb[c] EXCEPT !.tenantAsked = TRUE]
         got == [asked EXCEPT !.tenantOk = TRUE, !.hubId = hub]
         portalId == CallbackPortalId(rev, hub)
         rec == [accessToken |-> cb[c].grant, refreshToken |-> cb[c].grant,
                 expiresAt |-> NowSec(now) + cb[c].expiresIn]
         nxt == IF ~ok THEN Respond(asked, 500, "exchange_failed")
                ELSE IF portalId = NoPortal THEN Respond(got, 500, "no_portal")
                ELSE Respond([got EXCEPT !.portal = portalId, !.saved = TRUE], 302, "connected")
     IN /\ cb' = Settle(cb, c, IdleCallback, nxt)
        /\ last' = LastAfter(nxt)
        /\ tokens' = IF nxt.saved THEN saveToken(tokens, portalId, rec) ELSE tokens
  /\ UNCHANGED <<now, cfg, rev, oauthStates, issued, minted, checked, req, crm, bulk, single, view, mockState>>

\* the store after POST /auth/disconnect: if (portalId) deleteToken(portalId)
DisconnectStore(store, p) == IF p # NoPortal THEN deleteToken(store, p) ELSE store

DisconnectAnswerIfFound(store, p) == IF MapHas(store, p) THEN 200 ELSE 404

\* res.json({ success: true }), whatever the store held
DisconnectAnswer(store, p) == 200

\* POST /auth/disconnect
Disconnect(p) ==
  /\ tokens' = DisconnectStore(tokens, p)
  /\ last' = [IdleReq EXCEPT !.op = "disconnect", !.pc = "done",
                             !.status = DisconnectAnswer(tokens, p),
                             !.body = IF DisconnectAnswer(tokens, p) = 200
                                      THEN "success" ELSE "error",
                             !.portal = p, !.found = MapHas(tokens, p),
                             !.recordLeft = MapHas(DisconnectStore(tokens, p), p),
                             !.again = (last.op = "disconnect" /\ last.portal = p),
                             !.afterDelete = (last.op = "disconnect" /\ last.portal = p
                                              /\ last.found)]
  /\ UNCHANGED <<now, cfg, rev, oauthStates, issued, minted, checked, cb, req, crm, bulk, single, view, mockState>>

StatusStoreEvictsStale(store, p, ms) ==
  IF MapHas(store, p) /\ IsStale(store[p], ms) THEN deleteToken(store, p) ELSE store

\* the store after GET /auth/status: the handler only calls storage.getToken
StatusStore(store, p, ms) == store

\* GET /auth/status: connected with the tenant's record; without one, routes.ts
\* reports the private token as the connection and part_001 reports none
StatusBody(rv, c, found) ==
  IF found THEN "connected"
  ELSE IF rv = "query" /\ c.privateToken THEN "connected" ELSE "not_connected"

\* GET /auth/status
AuthStatus(p) ==
  /\ LET found == p # NoPortal /\ MapHas(tokens, p)
     IN last' = [IdleReq EXCEPT !.op = "status", !.pc = "done", !.status = 200,
                                !.body = StatusBody(rev, cfg, found),
                                !.portal = p, !.found = found,
                                !.stale = found /\ IsStale(getToken(tokens, p), now)]
  /\ tokens' = StatusStore(tokens, p, now)
  /\ UNCHANGED <<now, cfg, rev, oauthStates, issued, minted, checked, cb, req, crm, bulk, single, view, mockState>>

\* GET /api/company/:companyId: getHubSpotClient(portalId) up to the refresh call
CompanyBegin(r, p) ==
  /\ CanBegin(req, r)
  /\ LET found == p # NoPortal /\ MapHas(tokens, p)
         token == getToken(tokens, p)
         stale == found /\ IsStale(token, now)
         base == [IdleReq EXCEPT !.op = "company", !.portal = p, !.found = found,
                                 !.stale = stale, !.rt = token.refreshToken]
         nxt == IF stale /\ OAuthConfigured(cfg)
                THEN [base EXCEPT !.pc = "refreshing", !.refreshCalls = @ + 1]
                ELSE IF stale
                THEN CompanyWithClient(rev, [base EXCEPT !.refreshFailed = TRUE,
                                                         !.recordLeft = MapHas(tokens, p)],
                                       AfterRefreshNull(rev, cfg))
                ELSE IF found
                THEN CompanyWithClient(rev, base, token.accessToken)
                ELSE CompanyWithClient(rev, base, Fallback(cfg))
     IN /\ req' = Settle(req, r, IdleReq, nxt)
        /\ last' = LastAfter(nxt)
  /\ UNCHANGED <<now, cfg, rev, oauthStates, issued, tokens, minted, checked, cb, crm, bulk, single, view, mockState>>

\* refreshAccessToken: oauth.tokensApi.create("refresh_token", ...) answered
RefreshResponse(r, ok, rotated, life) ==
  /\ req[r].pc = "refreshing"
  /\ ok => minted < MaxMint
  /\ LET newToken == RefreshedToken(minted + 1, rotated, req[r].rt, life, now)
         store == IF ok THEN saveToken(tokens, req[r].portal, newToken)
                  ELSE RefreshFailureStore(tokens, req[r].portal)
         nxt == IF ok
                THEN CompanyWithClient(rev, [req[r] EXCEPT !.rotated = rotated],
                                       newToken.accessToken)
                ELSE CompanyWithClient(rev, [req[r] EXCEPT !.refreshFailed = TRUE,
                                                           !.recordLeft = MapHas(store, req[r].portal)],
                                       AfterRefreshNull(rev, cfg))
     IN /\ tokens' = store
        /\ minted' = IF ok THEN minted + 1 ELSE minted
        /\ req' = Settle(req, r, IdleReq, nxt)
        /\ last' = LastAfter(nxt)
  /\ UNCHANGED <<now, cfg, rev, oauthStates, issued, checked, cb, crm, bulk, single, view, mockState>>

\* GET /api/company/:companyId: the calls to the CRM made with the client
CompanyFetch(r, ok) ==
  /\ req[r].op = "company" /\ req[r].pc = "crm"
  /\ LET nxt == Answer([req[r] EXCEPT !.crmCalls = @ + 1], IF ok THEN 200 ELSE 500,
                       IF ok THEN "data" ELSE "error")
     IN /\ req' = Settle(req, r, IdleReq, nxt)
        /\ last' = LastAfter(nxt)
  /\ UNCHANGED <<now, cfg, rev, oauthStates, issued, tokens, minted, checked, cb, crm, bulk, single, view, mockState>>

\* ------------------------------------------------ archive overdue invoices

authVars == <<now, cfg, rev, oauthStates, issued, tokens, minted, checked, cb, req, last>>

Company == "c1"

\* the id of the i-th association the provider lists
InvoiceId(i) == ToString(100 + i)

\* what a rejected provider call carries: the provider's body message, the
\* Error's own message, either of them possibly empty
Errors ==
  { [bodyMessage |-> "Invoice is locked", message |-> "HTTP-Code: 400"],
    [bodyMessage |-> "", message |-> "socket hang up"],
    [bodyMessage |-> "", message |-> ""] }

\* e?.response?.body?.message || e.message || fallback
ReasonOf(e, fallback) ==
  IF e.bodyMessage # "" THEN e.bodyMessage
  ELSE IF e.message # "" THEN e.message
  ELSE fallback

\* the invoices the provider may hold, as getById returns them; "" is a
\* property that is not set.  hs_due_date is the invoice's due day written
\* yyyymmdd, 0 where it has none; the handler does not ask for it.
InvoiceProps ==
  { [hs_invoice_number |-> "INV-A", hs_invoice_status |-> "open", hs_due_date |-> 20241120,
     hs_collection_status |-> "OVERDUE", hs_payment_status |-> "", hs_amount_paid |-> ""],
    [hs_invoice_number |-> "", hs_invoice_status |-> "overdue", hs_due_date |-> 20241120,
     hs_collection_status |-> "", hs_payment_status |-> "", hs_amount_paid |-> "0"],
    [hs_invoice_number |-> "INV-B", hs_invoice_status |-> "open", hs_due_date |-> 20241120,
     hs_collection_status |-> "overdue", hs_payment_status |-> "", hs_amount_paid |-> "25.50"],
    [hs_invoice_number |-> "INV-B", hs_invoice_status |-> "Paid", hs_due_date |-> 20241115,
     hs_collection_status |-> "", hs_payment_status |-> "paid", hs_amount_paid |-> "100"],
    [hs_invoice_number |-> "INV-A", hs_invoice_status |-> "open", hs_due_date |-> 20990101,
     hs_collection_status |-> "", hs_payment_status |-> "", hs_amount_paid |-> ""],
    [hs_invoice_number |-> "INV-A", hs_invoice_status |-> "overdue", hs_due_date |-> 20241120,
     hs_collection_status |-> "", hs_payment_status |-> "PAID", hs_amount_paid |-> "0"],
    [hs_invoice_number |-> "INV-B", hs_invoice_status |-> "open", hs_due_date |-> 0,
     hs_collection_status |-> "overdue", hs_payment_status |-> "", hs_amount_paid |-> "n/a"],
    [hs_invoice_number |-> "INV-A", hs_invoice_status |-> "open", hs_due_date |-> 20241120,
     hs_collection_status |-> "", hs_payment_status |-> "", hs_amount_paid |-> "0"] }

\* no invoice: the loop variable outside an iteration
NoInvoice ==
  [id |-> "",
   properties |-> [hs_invoice_number |-> "", hs_invoice_status |-> "", hs_due_date |-> 0,
                   hs_collection_status |-> "", hs_payment_status |-> "",
                   hs_amount_paid |-> ""]]

toLowerCase(s) ==
  CASE s = "OVERDUE" -> "overdue"
    [] s = "PAID" -> "paid"
    [] s = "Paid" -> "paid"
    [] OTHER -> s

\* parseFloat, in hundredths; text that is no number parses to NaN
parseFloat(s) ==
  CASE s = "0" -> [nan |-> FALSE, hundredths |-> 0]
    [] s = "25.50" -> [nan |-> FALSE, hundredths |-> 2550]
    [] s = "100" -> [nan |-> FALSE, hundredths |-> 10000]
    [] OTHER -> [nan |-> TRUE, hundredths |-> 0]

\* x > 0; every comparison with NaN is false
GreaterThanZero(x) == ~x.nan /\ x.hundredths > 0

isOverdue(collectionStatus, invoiceStatus) ==
  collectionStatus = "overdue" \/ invoiceStatus = "overdue"

isPaid(invoiceStatus, paymentStatus, amountPaid) ==
  invoiceStatus = "paid" \/ paymentStatus = "paid" \/ GreaterThanZero(amountPaid)

OverdueUnpaid(props) ==
  LET invoiceStatus == toLowerCase(props.hs_invoice_status)
      collectionStatus == toLowerCase(props.hs_collection_status)
      paymentStatus == toLowerCase(props.hs_payment_status)
      amountPaid == parseFloat(IF props.hs_amount_paid = "" THEN "0" ELSE props.hs_amount_paid)
  IN isOverdue(collectionStatus, invoiceStatus)
       /\ ~isPaid(invoiceStatus, paymentStatus, amountPaid)

\* hs_invoice_number || invoice.id
InvoiceNumber(props, id) ==
  IF props.hs_invoice_number = "" THEN id ELSE props.hs_invoice_number

NoMessage == [text |-> "", archived |-> << >>, failed |-> << >>]

NoResponse ==
  [status |-> 0, success |-> FALSE, archivedCount |-> 0, archivedInvoices |-> << >>,
   hasFailedInvoices |-> FALSE, failedInvoices |-> << >>, message |-> NoMessage]

IdleBulk ==
  [pc |-> "idle", mock |-> FALSE, listed |-> FALSE, results |-> << >>, nextPage |-> FALSE,
   fetched |-> 0, invoice |-> NoInvoice, overdueUnpaidInvoices |-> << >>, attempted |-> 0,
   archivedInvoices |-> << >>, failedInvoices |-> << >>, res |-> NoResponse]

\* the text of the success message: the archived part and the failed part
\* are there when their list is not empty
SummaryMessage(archived, failed) ==
  [text |-> "Company marked as bad debt.", archived |-> archived, failed |-> failed]

BulkSuccess(rec) ==
  [rec EXCEPT !.pc = "done",
     !.res = [status |-> 200, success |-> TRUE,
              archivedCount |-> Len(rec.archivedInvoices),
              archivedInvoices |-> rec.archivedInvoices,
              hasFailedInvoices |-> TRUE, failedInvoices |-> rec.failedInvoices,
              message |-> SummaryMessage(rec.archivedInvoices, rec.failedInvoices)]]

BulkFailureReportsSuccess(rec, e) == BulkSuccess(rec)

\* the outer catch
BulkFailure(rec, e) ==
  [rec EXCEPT !.pc = "done",
     !.res = [status |-> 500, success |-> FALSE, archivedCount |-> 0,
              archivedInvoices |-> << >>,
              hasFailedInvoices |-> FALSE, failedInvoices |-> << >>,
              message |-> [NoMessage EXCEPT
                             !.text = ReasonOf(e, "Failed to archive overdue invoices.")]]]

BulkPcAbort(rec) ==
  IF rec.fetched < Len(rec.results) THEN "fetching"
  ELSE IF rec.attempted < Len(rec.overdueUnpaidInvoices) /\ rec.failedInvoices = << >>
  THEN "archiving"
  ELSE "flagging"

\* where the handler stands once its locals are rec: in the first loop, in
\* the second loop, or past both
BulkPc(rec) ==
  IF rec.fetched < Len(rec.results) THEN "fetching"
  ELSE IF rec.attempted < Len(rec.overdueUnpaidInvoices) THEN "archiving"
  ELSE "flagging"

BulkCallFlagFirst(rec) ==
  CASE BulkPc(rec) = "fetching" -> [op |-> "getById", id |-> rec.results[rec.fetched + 1], result |-> "pending"]
    [] OTHER -> [op |-> "update", id |-> Company, result |-> "pending"]

\* the provider call the handler awaits there
BulkCall(rec) ==
  CASE BulkPc(rec) = "fetching" -> [op |-> "getById", id |-> rec.results[rec.fetched + 1], result |-> "pending"]
    [] BulkPc(rec) = "archiving" ->
         [op |-> "archive", id |-> rec.overdueUnpaidInvoices[rec.attempted + 1].id,
          result |-> "pending"]
    [] OTHER -> [op |-> "update", id |-> Company, result |-> "pending"]

\* the provider has answered the call the handler was awaiting
Answered(provider, ok) ==
  [provider EXCEPT !.calls[Len(provider.calls)].result = IF ok THEN "ok" ELSE "failed"]

\* the handler runs on to its next provider call
BulkContinue(rec, provider) ==
  /\ bulk' = [rec EXCEPT !.pc = BulkPc(rec)]
  /\ crm' = [provider EXCEPT !.calls = Append(@, BulkCall(rec))]

\* demo mode: the invoices of the demo company; a due date is a calendar day
\* written yyyymmdd, 0 where the invoice has none
allMockInvoices ==
  << [id |-> "101", hs_invoice_number |-> "INV-2024-001", hs_invoice_status |-> "paid", hs_due_date |-> 20241115],
     [id |-> "102", hs_invoice_number |-> "INV-2024-002", hs_invoice_status |-> "open", hs_due_date |-> 20250115],
     [id |-> "103", hs_invoice_number |-> "INV-2024-003", hs_invoice_status |-> "open", hs_due_date |-> 20241201],
     [id |-> "104", hs_invoice_number |-> "INV-2024-004", hs_invoice_status |-> "open", hs_due_date |-> 20241120],
     [id |-> "105", hs_invoice_number |-> "INV-2024-005", hs_invoice_status |-> "draft", hs_due_date |-> 0],
     [id |-> "106", hs_invoice_number |-> "INV-2024-006", hs_invoice_status |-> "voided", hs_due_date |-> 20241001] >>

\* the days on which a demo request may arrive
MockDays == {20241125, 20250601}

MockOverdue(inv, today, deleted) ==
  /\ inv.id \notin deleted
  /\ inv.hs_invoice_status = "open"
  /\ inv.hs_due_date # 0
  /\ inv.hs_due_date < today

\* Array.prototype.filter, then map to the invoice number
RECURSIVE MockOverdueNumbers(_, _, _)
MockOverdueNumbers(invs, today, deleted) ==
  IF invs = << >> THEN << >>
  ELSE (IF MockOverdue(Head(invs), today, deleted)
          THEN <<Head(invs).hs_invoice_number>> ELSE << >>)
       \o MockOverdueNumbers(Tail(invs), today, deleted)

MockOverdueIds(today, deleted) ==
  {allMockInvoices[i].id : i \in {j \in DOMAIN allMockInvoices :
                                    MockOverdue(allMockInvoices[j], today, deleted)}}

\* POST archive-overdue-invoices without a provider client: answered at once
BulkMock(today) ==
  /\ bulk.pc \in {"idle", "done"}
  /\ ~cfg.privateToken
  /\ LET numbers == MockOverdueNumbers(allMockInvoices, today, mockState.deletedInvoiceIds)
     IN bulk' = [IdleBulk EXCEPT !.pc = "done", !.mock = TRUE,
                   !.res = [status |-> 200, success |-> TRUE,
                            archivedCount |-> Len(numbers), archivedInvoices |-> numbers,
                            hasFailedInvoices |-> FALSE, failedInvoices |-> << >>,
                            message |-> [NoMessage EXCEPT !.text = "Mock response"]]]
  /\ mockState' = [badDebt |-> TRUE,
                   deletedInvoiceIds |-> mockState.deletedInvoiceIds
                                           \cup MockOverdueIds(today, mockState.deletedInvoiceIds)]
  /\ UNCHANGED <<authVars, crm, single, view>>

\* POST archive-overdue-invoices with a client: the associations are asked for
BulkBegin ==
  /\ bulk.pc \in {"idle", "done"}
  /\ cfg.privateToken
  /\ bulk' = [IdleBulk EXCEPT !.pc = "listing"]
  /\ crm' = [crm EXCEPT !.calls = <<[op |-> "getPage", id |-> Company, result |-> "pending"]>>]
  /\ UNCHANGED <<authVars, single, view, mockState>>

\* getPage answers with a page of n associations, with or without
\* paging.next (there are more on the next page), or is rejected
BulkListed(ok, n, more, e) ==
  /\ bulk.pc = "listing"
  /\ IF ok
       THEN BulkContinue([bulk EXCEPT !.listed = TRUE, !.nextPage = more,
                                      !.results = [i \in 1..n |-> InvoiceId(i)]],
                         Answered(crm, ok))
       ELSE bulk' = BulkFailure(bulk, e) /\ crm' = Answered(crm, ok)
  /\ UNCHANGED <<authVars, single, view, mockState>>

\* getById answers with the invoice's properties, or is rejected and the
\* invoice is passed over; bulk.invoice is what the iteration just ended got
BulkFetched(ok, props) ==
  /\ bulk.pc = "fetching"
  /\ LET id == bulk.results[bulk.fetched + 1]
         seen == [bulk EXCEPT !.fetched = @ + 1,
                              !.invoice = IF ok THEN [id |-> id, properties |-> props]
                                          ELSE NoInvoice]
     IN BulkContinue(
          IF ok /\ OverdueUnpaid(props)
            THEN [seen EXCEPT !.overdueUnpaidInvoices =
                                Append(@, [id |-> id, number |-> InvoiceNumber(props, id)])]
            ELSE seen,
          Answered(crm, ok))
  /\ UNCHANGED <<authVars, single, view, mockState>>

\* archive answers, or is rejected and the invoice goes to failedInvoices
BulkArchived(ok, e) ==
  /\ bulk.pc = "archiving"
  /\ LET invoice == bulk.overdueUnpaidInvoices[bulk.attempted + 1]
         tried == [bulk EXCEPT !.attempted = @ + 1, !.invoice = NoInvoice]
     IN IF ok
          THEN BulkContinue([tried EXCEPT !.archivedInvoices = Append(@, invoice.number)],
                            [Answered(crm, ok) EXCEPT !.archived = @ \cup {invoice.id}])
          ELSE BulkContinue(
                 [tried EXCEPT !.failedInvoices =
                    Append(@, [number |-> invoice.number,
                               reason |-> ReasonOf(e, "Unknown error")])],
                 Answered(crm, ok))
  /\ UNCHANGED <<authVars, single, view, mockState>>

\* companies.update answers, or is rejected
BulkFlagged(ok, e) ==
  /\ bulk.pc = "flagging"
  /\ IF ok
       THEN /\ bulk' = BulkSuccess([bulk EXCEPT !.invoice = NoInvoice])
            /\ crm' = [Answered(crm, ok) EXCEPT !.badDebt = TRUE]
       ELSE /\ bulk' = BulkFailure([bulk EXCEPT !.invoice = NoInvoice], e)
            /\ crm' = Answered(crm, ok)
  /\ UNCHANGED <<authVars, single, view, mockState>>


\* -------------------------------------------------- mark-invoice-bad-debt

\* the invoice and the deal the request names; "" is a dealId that is
\* absent, null or empty
InvoiceUnderRequest == "101"
DealIds == {"d1", ""}

NoCascadeResponse ==
  [status |-> 0, success |-> FALSE, updatedInvoice |-> FALSE, updatedDeal |-> FALSE,
   updatedCompany |-> FALSE, message |-> << >>]

\* the request: its body, the handler's locals and the response; properties
\* is what the provider holds for the invoice, which the handler never reads
IdleSingle ==
  [op |-> "none", pc |-> "idle", mock |-> FALSE, dealId |-> "",
   properties |-> NoInvoice.properties,
   updatedInvoice |-> FALSE, updatedDeal |-> FALSE, updatedCompany |-> FALSE,
   updates |-> << >>, res |-> NoCascadeResponse]

AfterInvoiceWriteSkipsDeal(rec) == "company"

\* where the cascade goes after the invoice write: if (dealId)
AfterInvoiceWrite(rec) == IF rec.dealId # "" THEN "deal" ELSE "company"

CascadeCall(pc, rec) ==
  CASE pc = "invoice" -> [op |-> "update", object |-> "invoices", id |-> InvoiceUnderRequest]
    [] pc = "deal" -> [op |-> "update", object |-> "deals", id |-> rec.dealId]
    [] OTHER -> [op |-> "update", object |-> "companies", id |-> Company]

CascadeAnswerAllOrNothing(rec) ==
  [status |-> 200, success |-> rec.updatedInvoice /\ rec.updatedCompany,
   updatedInvoice |-> rec.updatedInvoice, updatedDeal |-> rec.updatedDeal,
   updatedCompany |-> rec.updatedCompany, message |-> rec.updates]

\* res.status(200).json: success is true whatever was updated; the message
\* lists updates
CascadeAnswer(rec) ==
  [status |-> 200, success |-> TRUE,
   updatedInvoice |-> rec.updatedInvoice, updatedDeal |-> rec.updatedDeal,
   updatedCompany |-> rec.updatedCompany, message |-> rec.updates]

\* the handler goes on to the write at pc
CascadeContinue(rec, pc, provider) ==
  /\ single' = [rec EXCEPT !.pc = pc]
  /\ crm' = [provider EXCEPT
               !.calls = Append(@, [op |-> "update", id |-> CascadeCall(pc, rec).id,
                                    result |-> "pending"])]

\* a write that succeeded has set bad_debt on the object
Marked(provider, ok, call) ==
  IF ok THEN [Answered(provider, ok) EXCEPT !.marked = @ \cup {[object |-> call.object,
                                                               id |-> call.id]}]
  ELSE Answered(provider, ok)

\* POST /api/mark-invoice-bad-debt up to the invoice write: the body is
\* parsed and the session's client resolved; a stale token would be refreshed
\* first, as in CompanyBegin
CascadeBegin(valid, p, dealId, props) ==
  /\ rev = "session"
  /\ single.pc \in {"idle", "done"}
  /\ LET found == p # NoPortal /\ MapHas(tokens, p)
         token == getToken(tokens, p)
         handle == IF found THEN token.accessToken ELSE Fallback(cfg)
         base == [IdleSingle EXCEPT !.op = "cascade", !.dealId = dealId,
                                    !.properties = props]
     IN /\ ~(found /\ IsStale(token, now))
        /\ IF ~valid
             THEN /\ single' = [base EXCEPT !.pc = "done", !.res.status = 400]
                  /\ crm' = [crm EXCEPT !.calls = << >>]
             ELSE IF handle = NoHandle
             THEN /\ single' = [base EXCEPT !.pc = "done", !.res.status = 401]
                  /\ crm' = [crm EXCEPT !.calls = << >>]
             ELSE CascadeContinue(base, "invoice", [crm EXCEPT !.calls = << >>])
  /\ UNCHANGED <<authVars, bulk, view, mockState>>

\* 1) the invoice write answered
CascadeInvoice(ok) ==
  /\ single.op = "cascade" /\ single.pc = "invoice"
  /\ CascadeContinue(
       IF ok THEN [single EXCEPT !.updatedInvoice = TRUE, !.updates = Append(@, "invoice")]
       ELSE single,
       AfterInvoiceWrite(single),
       Marked(crm, ok, CascadeCall("invoice", single)))
  /\ UNCHANGED <<authVars, bulk, view, mockState>>

\* 2) the deal write answered
CascadeDeal(ok) ==
  /\ single.op = "cascade" /\ single.pc = "deal"
  /\ CascadeContinue(
       IF ok THEN [single EXCEPT !.updatedDeal = TRUE, !.updates = Append(@, "deal")]
       ELSE single,
       "company",
       Marked(crm, ok, CascadeCall("deal", single)))
  /\ UNCHANGED <<authVars, bulk, view, mockState>>

\* 3) the company write answered; the response
CascadeCompany(ok) ==
  /\ single.op = "cascade" /\ single.pc = "company"
  /\ LET rec == IF ok THEN [single EXCEPT !.updatedCompany = TRUE,
                                          !.updates = Append(@, "company")]
                ELSE single
     IN /\ single' = [rec EXCEPT !.pc = "done", !.res = CascadeAnswer(rec)]
        /\ crm' = [Marked(crm, ok, CascadeCall("company", single))
                     EXCEPT !.badDebt = IF ok THEN TRUE ELSE @]
  /\ UNCHANGED <<authVars, bulk, view, mockState>>

\* ------------------------------------- archive of one invoice (routes.ts)

\* res.status(st).json({ success, ... })
ArchiveAnswer(rec, st) ==
  [rec EXCEPT !.pc = "done", !.res.status = st, !.res.success = (st = 200)]

\* the handler awaits its next provider call
ArchiveContinue(rec, pc, call, provider) ==
  /\ single' = [rec EXCEPT !.pc = pc]
  /\ crm' = [provider EXCEPT
               !.calls = Append(@, [op |-> call, id |-> IF call = "update" THEN Company
                                                       ELSE InvoiceUnderRequest,
                                    result |-> "pending"])]

ArchiveNextFlagsAnyway(ok) == "flagging"

\* the awaited archive call: a rejection leaves the try block for the catch
ArchiveNext(ok) == IF ok THEN "flagging" ELSE "done"

\* POST /api/company/:companyId/invoice/:invoiceId/archive up to getById;
\* without a client the demo state is changed and the answer is 200
ArchiveBegin ==
  /\ single.pc \in {"idle", "done"}
  /\ LET base == [IdleSingle EXCEPT !.op = "archive"]
     IN IF ~cfg.privateToken
        THEN /\ single' = ArchiveAnswer([base EXCEPT !.mock = TRUE], 200)
             /\ mockState' = [badDebt |-> TRUE,
                              deletedInvoiceIds |-> mockState.deletedInvoiceIds
                                                      \cup {InvoiceUnderRequest}]
             /\ crm' = [crm EXCEPT !.calls = << >>]
        ELSE /\ ArchiveContinue(base, "fetching", "getById", [crm EXCEPT !.calls = << >>])
             /\ UNCHANGED mockState
  /\ UNCHANGED <<authVars, bulk, view>>

\* getById answered; the gate: !isOverdue || isPaid answers 400
ArchiveFetched(ok, props) ==
  /\ single.op = "archive" /\ single.pc = "fetching"
  /\ LET rec == [single EXCEPT !.properties = props]
     IN IF ~ok
        THEN single' = ArchiveAnswer(single, 500) /\ crm' = Answered(crm, ok)
        ELSE IF ~OverdueUnpaid(props)
        THEN single' = ArchiveAnswer(rec, 400) /\ crm' = Answered(crm, ok)
        ELSE ArchiveContinue(rec, "archiving", "archive", Answered(crm, ok))
  /\ UNCHANGED <<authVars, bulk, view, mockState>>

\* basicApi.archive answered
ArchiveArchived(ok) ==
  /\ single.op = "archive" /\ single.pc = "archiving"
  /\ LET provider == IF ok THEN [Answered(crm, ok) EXCEPT !.archived = @ \cup {InvoiceUnderRequest}]
                     ELSE Answered(crm, ok)
     IN IF ArchiveNext(ok) = "flagging"
        THEN ArchiveContinue(single, "flagging", "update", provider)
        ELSE single' = ArchiveAnswer(single, 500) /\ crm' = provider
  /\ UNCHANGED <<authVars, bulk, view, mockState>>

\* companies.basicApi.update answered; the response
ArchiveFlagged(ok) ==
  /\ single.op = "archive" /\ single.pc = "flagging"
  /\ single' = ArchiveAnswer(single, IF ok THEN 200 ELSE 500)
  /\ crm' = [Answered(crm, ok) EXCEPT !.badDebt = IF ok THEN TRUE ELSE @]
  /\ UNCHANGED <<authVars, bulk, view, mockState>>

\* ------------------------------------------- company read and its page

DayMs == 24 * 60 * 60 * 1000

\* the local time of day at now = 0: one clock step before midnight
ClockAtStart == DayMs - TickMs

\* the calendar days the clock runs through, written yyyymmdd
Days == <<20250531, 20250601>>

\* new Date() with setHours(0, 0, 0, 0): the local day of the instant ms
LocalDay(ms) == Days[1 + ((ms + ClockAtStart) \div DayMs)]

\* the invoices a company read may get: status and due day
ReadInvoiceProps ==
  { [hs_invoice_status |-> "open", hs_due_date |-> 20250531],
    [hs_invoice_status |-> "open", hs_due_date |-> 0],
    [hs_invoice_status |-> "paid", hs_due_date |-> 20241115] }

\* status.toLowerCase() === "open" && dueDate && new Date(dueDate) < today
OverdueOn(inv, today) ==
  /\ toLowerCase(inv.hs_invoice_status) = "open"
  /\ inv.hs_due_date # 0
  /\ inv.hs_due_date < today

\* the read: the deals and invoices the association pages listed (items are
\* named by their place in the page), those still to fetch, those whose
\* fetch succeeded, those of the response; today as the handler captured it
\* and for each invoice of the response the day it was counted against;
\* the page: for each invoice of the response the day isInvoiceOverdue
\* compared it with and what it returned
IdleView ==
  [pc |-> "idle", status |-> 0, today |-> 0,
   dealsListed |-> 0, dealsLeft |-> 0, okDeals |-> {}, deals |-> << >>,
   listed |-> 0, toFetch |-> 0, okInvoices |-> {}, invoiceIds |-> << >>,
   itemFailed |-> FALSE, invoices |-> << >>,
   countedOn |-> << >>, overdueCount |-> 0, flags |-> << >>]

ItemFailedListed(list, id) == Append(list, id)

\* catch (e) { console.error(...) }: the list of the response is not touched
ItemFailed(list, id) == list

\* after the deal loop: today is taken, then the invoice loop runs; with no
\* invoice to fetch the response is sent
AfterDeals(rec, ms) ==
  [rec EXCEPT !.today = LocalDay(ms),
              !.pc = IF rec.toFetch = 0 THEN "rendering" ELSE "fetching",
              !.status = IF rec.toFetch = 0 THEN 200 ELSE 0]

\* GET /api/company/:companyId with a client, up to the deal loop: the
\* company and the two association pages are read
ReadBegin(ok, nd, ni) ==
  /\ view.pc \in {"idle", "shown"}
  /\ LET rec == [IdleView EXCEPT !.pc = "deals", !.dealsListed = nd, !.dealsLeft = nd,
                                 !.listed = ni, !.toFetch = ni]
     IN view' = IF ~ok THEN [IdleView EXCEPT !.pc = "shown", !.status = 500]
                ELSE IF nd = 0 THEN AfterDeals(rec, now)
                ELSE rec
  /\ UNCHANGED <<authVars, crm, bulk, single, mockState>>

\* one iteration of the deal loop: deals.basicApi.getById answered
ReadDeal(ok) ==
  /\ view.pc = "deals"
  /\ LET i == view.dealsListed - view.dealsLeft + 1
         got == IF ok
                THEN [view EXCEPT !.deals = Append(@, i), !.okDeals = @ \cup {i}]
                ELSE [view EXCEPT !.deals = ItemFailed(@, i), !.itemFailed = TRUE]
         left == view.dealsLeft - 1
     IN view' = IF left = 0 THEN AfterDeals([got EXCEPT !.dealsLeft = 0], now)
                ELSE [got EXCEPT !.dealsLeft = left]
  /\ UNCHANGED <<authVars, crm, bulk, single, mockState>>

\* one iteration of the invoice loop: getById answered (the lookup of the
\* invoice's deal is caught on its own and does not decide whether the
\* invoice is listed); after the last one the response is sent
ReadInvoice(ok, inv) ==
  /\ view.pc = "fetching"
  /\ LET i == view.listed - view.toFetch + 1
         got == IF ok
                THEN [view EXCEPT !.invoices = Append(@, inv),
                                  !.invoiceIds = Append(@, i),
                                  !.okInvoices = @ \cup {i},
                                  !.countedOn = Append(@, view.today),
                                  !.overdueCount = IF OverdueOn(inv, view.today)
                                                   THEN @ + 1 ELSE @]
                ELSE [view EXCEPT !.invoiceIds = ItemFailed(@, i), !.itemFailed = TRUE]
         left == view.toFetch - 1
     IN view' = [got EXCEPT !.toFetch = left,
                            !.pc = IF left = 0 THEN "rendering" ELSE "fetching",
                            !.status = IF left = 0 THEN 200 ELSE 0]
  /\ UNCHANGED <<authVars, crm, bulk, single, mockState>>

\* the page calls isInvoiceOverdue on the next invoice of the response
PageClassify ==
  /\ view.pc = "rendering"
  /\ LET i == Len(view.flags) + 1
         flagged == IF i <= Len(view.invoices)
                    THEN [view EXCEPT !.flags =
                            Append(@, [day |-> LocalDay(now),
                                       overdue |-> OverdueOn(view.invoices[i], LocalDay(now))])]
                    ELSE view
     IN view' = [flagged EXCEPT !.pc = IF Len(flagged.flags) = Len(view.invoices)
                                       THEN "shown" ELSE "rendering"]
  /\ UNCHANGED <<authVars, crm, bulk, single, mockState>>

StoreKeys == Portals \cup {UnknownPortal}

Init ==
  /\ now = 0
  /\ cfg \in [clientId : BOOLEAN, clientSecret : BOOLEAN, privateToken : BOOLEAN]
  /\ rev \in {"query", "session"}
  /\ oauthStates = EmptyMap
  /\ issued = 0
  /\ tokens = EmptyMap
  /\ minted = 0
  /\ checked = {}
  /\ cb = [c \in Callbacks |-> IdleCallback]
  /\ req = [r \in Reqs |-> IdleReq]
  /\ last = IdleReq
  /\ crm = [calls |-> << >>, archived |-> {}, marked |-> {}, badDebt |-> FALSE]
  /\ bulk = IdleBulk
  /\ single = IdleSingle
  /\ view = IdleView
  /\ mockState = [badDebt |-> FALSE, deletedInvoiceIds |-> {}]

\* every query a callback may carry, every answer the provider may give
NextCsrf ==
  \/ Tick
  \/ AuthStart
  \/ \E c \in Callbacks, err \in BOOLEAN, st \in {MissingState, Forged} \cup (1..issued),
        hasCode \in BOOLEAN : CallbackReceive(c, err, st, hasCode)
  \/ \E c \in Callbacks, ok \in BOOLEAN, life \in Lifetimes : CallbackExchanged(c, ok, life)
  \/ \E c \in Callbacks, ok \in BOOLEAN, hub \in Portals \cup {NoPortal} :
        CallbackTenant(c, ok, hub)

SpecCsrf == Init /\ [][NextCsrf]_vars

\* the token store and its clients, the API requests taking the slots rs;
\* callbacks come back from the provider's consent page with the state the
\* server issued and a code, and the provider names the portal
NextToken(rs) ==
  \/ Tick
  \/ AuthStart
  \/ \E c \in Callbacks, st \in 1..issued : CallbackReceive(c, FALSE, st, TRUE)
  \/ \E c \in Callbacks, ok \in BOOLEAN, life \in Lifetimes : CallbackExchanged(c, ok, life)
  \/ \E c \in Callbacks, ok \in BOOLEAN, hub \in Portals : CallbackTenant(c, ok, hub)
  \/ \E p \in Portals \cup {NoPortal} : Disconnect(p)
  \/ \E p \in Portals \cup {NoPortal} : AuthStatus(p)
  \/ \E r \in rs, p \in Portals \cup {NoPortal} : CompanyBegin(r, p)
  \/ \E r \in rs, ok \in BOOLEAN, rotated \in BOOLEAN, life \in Lifetimes :
        RefreshResponse(r, ok, rotated, life)
  \/ \E r \in rs, ok \in BOOLEAN : CompanyFetch(r, ok)

\* one API request at a time
Next == NextToken({1})

Spec == Init /\ [][Next]_vars

\* API requests that overlap
NextRace == NextToken(Reqs)

SpecRace == Init /\ [][NextRace]_vars

\* the bulk archive of a company's overdue invoices, one request at a time
NextBulk ==
  \/ \E today \in MockDays : BulkMock(today)
  \/ BulkBegin
  \/ \E ok \in BOOLEAN, n \in 0..MaxInvoices, more \in BOOLEAN, e \in Errors :
        BulkListed(ok, n, more, e)
  \/ \E ok \in BOOLEAN, props \in InvoiceProps : BulkFetched(ok, props)
  \/ \E ok \in BOOLEAN, e \in Errors : BulkArchived(ok, e)
  \/ \E ok \in BOOLEAN, e \in Errors : BulkFlagged(ok, e)

SpecBulk == Init /\ [][NextBulk]_vars

\* one request on one invoice at a time
NextSingle ==
  \/ \E valid \in BOOLEAN, p \in Portals \cup {NoPortal}, dealId \in DealIds,
        props \in InvoiceProps : CascadeBegin(valid, p, dealId, props)
  \/ \E ok \in BOOLEAN : CascadeInvoice(ok)
  \/ \E ok \in BOOLEAN : CascadeDeal(ok)
  \/ \E ok \in BOOLEAN : CascadeCompany(ok)

SpecSingle == Init /\ [][NextSingle]_vars

\* a company read and the page that shows it, while the clock runs
NextView ==
  \/ Tick
  \/ \E ok \in BOOLEAN, nd \in 0..MaxDeals, ni \in 0..MaxInvoices : ReadBegin(ok, nd, ni)
  \/ \E ok \in BOOLEAN : ReadDeal(ok)
  \/ \E ok \in BOOLEAN, inv \in ReadInvoiceProps : ReadInvoice(ok, inv)
  \/ PageClassify

SpecView == Init /\ [][NextView]_vars

\* the archive of one invoice, one request at a time
NextArchive ==
  \/ ArchiveBegin
  \/ \E ok \in BOOLEAN, props \in InvoiceProps : ArchiveFetched(ok, props)
  \/ \E ok \in BOOLEAN : ArchiveArchived(ok)
  \/ \E ok \in BOOLEAN : ArchiveFlagged(ok)

SpecArchive == Init /\ [][NextArchive]_vars

\* the state registry under authorization starts and the clock alone
NextSweep ==
  \/ Tick
  \/ Issue(MaxIssues)

SpecSweep == Init /\ [][NextSweep]_vars

\* ------------------------------------------------------------- properties

\* the callbacks in flight and the one answered by the step just taken
CallbackRecords == {cb[c] : c \in Callbacks} \cup (IF last.op = "callback" THEN {last} ELSE {})

\* the API requests in flight and the one answered by the step just taken
RequestRecords == {req[r] : r \in Reqs} \cup (IF last.op = "company" THEN {last} ELSE {})

\* C1: a callback presenting a state that an earlier callback has already
\* looked up is never let past the state check, so no state is accepted twice
CsrfSingleUse == \A rec \in CallbackRecords : rec.repeat => ~rec.stateOk

\* a state the server issued is presented a second time and answered 400
CsrfSingleUseWitness ==
  /\ last.op = "callback" /\ last.repeat /\ last.state \in 1..issued
  /\ last.status = 400 /\ last.body = "invalid_state"

\* C2: a callback is let past the state check only with a state no older
\* than ten minutes
CsrfExpiryAtCallback ==
  \A rec \in CallbackRecords : rec.stateOk => rec.stateAge <= TenMinutesMs

\* C3: a request that found its tenant's token stale makes exactly one refresh
\* call, a request that did not makes none
ExactlyOneRefresh ==
  \A rec \in RequestRecords :
    rec.op = "company" => rec.refreshCalls = (IF rec.stale THEN 1 ELSE 0)

\* a request that found a stale token was answered after one refresh call
ExactlyOneRefreshWitness ==
  last.op = "company" /\ last.stale /\ last.refreshCalls = 1 /\ last.pc = "done"

\* C4: when refreshAccessToken returns null the store holds no record for the
\* tenant
NoRecordAfterFailedRefresh ==
  \A rec \in RequestRecords : rec.refreshFailed => ~rec.recordLeft

\* a refresh was rejected by the provider and the tenant's record is gone
NoRecordAfterFailedRefreshWitness ==
  /\ last.op = "company" /\ last.refreshFailed /\ last.refreshCalls = 1
  /\ ~MapHas(tokens, last.portal)

\* C5: a request whose refresh failed holds no client, is answered 401 and
\* makes no CRM call
FailedRefreshReturnsAbsent ==
  \A rec \in RequestRecords :
    rec.refreshFailed =>
      /\ rec.handle = NoHandle
      /\ rec.pc = "done" => (rec.status = 401 /\ rec.crmCalls = 0)

\* C6: of two requests in flight for the same tenant that both found the
\* token stale, at most one has made a refresh call
AtMostOneRefresh ==
  \A r1, r2 \in Reqs :
    (r1 # r2 /\ req[r1].stale /\ req[r2].stale /\ req[r1].portal = req[r2].portal)
      => req[r1].refreshCalls + req[r2].refreshCalls <= 1

\* C7: a callback has written a token record only if the state was accepted,
\* the code exchanged and the provider named the tenant; a callback that
\* failed has written none
CallbackSavesOnlyWhenResolved ==
  \A rec \in CallbackRecords :
    /\ rec.saved => (rec.stateOk /\ rec.exchanged /\ rec.tenantOk /\ rec.hubId # NoPortal)
    /\ (rec.pc = "done" /\ rec.status # 302) => ~rec.saved

\* C8: without a stored token and without a private-app token the company
\* read is answered 401 and no CRM call is made
NoTokenNoFallbackIs401 ==
  (last.op = "company" /\ ~last.found /\ ~cfg.privateToken)
    => (last.status = 401 /\ last.crmCalls = 0)

\* the archive calls the handler has made so far
ArchiveCalls == SelectSeq(crm.calls, LAMBDA c : c.op = "archive")

\* the company updates the handler has made so far
UpdateCalls == SelectSeq(crm.calls, LAMBDA c : c.op = "update")

\* the archive step is over: the handler is at the company update or past it
ArchiveStepOver == ~bulk.mock /\ bulk.listed /\ bulk.pc \in {"flagging", "done"}

\* the numbers of the selected invoices whose archive call ended with the
\* given result, in the order selected
SelectedNumbers(result) ==
  LET at == {i \in DOMAIN ArchiveCalls : ArchiveCalls[i].result = result}
      nth(j) == CHOOSE i \in at : Cardinality({k \in at : k <= i}) = j
  IN [j \in 1..Cardinality(at) |-> bulk.overdueUnpaidInvoices[nth(j)].number]

FlagOnceAfterArchives ==
  /\ (~bulk.mock /\ bulk.pc \in {"listing", "fetching", "archiving"}) => Len(UpdateCalls) = 0
  /\ ArchiveStepOver =>
       /\ Len(UpdateCalls) = 1
       /\ crm.calls[Len(crm.calls)].op = "update"
       /\ Len(ArchiveCalls) = Len(bulk.overdueUnpaidInvoices)

\* every archive of the request failed and the company update was still made
FlagOnceAfterArchivesWitness ==
  /\ ArchiveStepOver /\ bulk.pc = "done"
  /\ Len(bulk.overdueUnpaidInvoices) = 2 /\ Len(bulk.failedInvoices) = 2
  /\ Len(UpdateCalls) = 1

\* C11: when the company update is rejected the response says success=false
\* with status 500, the rejected update is the last provider call of the
\* request, and every invoice whose archive call succeeded is still archived
FlagFailureKeepsArchives ==
  (ArchiveStepOver /\ bulk.pc = "done" /\ crm.calls[Len(crm.calls)].result = "failed")
    => /\ bulk.res.success = FALSE /\ bulk.res.status = 500
       /\ crm.calls[Len(crm.calls)].op = "update"
       /\ \A i \in DOMAIN ArchiveCalls :
            ArchiveCalls[i].result = "ok" => ArchiveCalls[i].id \in crm.archived

\* an invoice was archived, then the company update was rejected
FlagFailureKeepsArchivesWitness ==
  /\ ArchiveStepOver /\ bulk.pc = "done" /\ bulk.res.status = 500
  /\ \E i \in DOMAIN ArchiveCalls :
       ArchiveCalls[i].result = "ok" /\ ArchiveCalls[i].id \in crm.archived
  /\ ~crm.badDebt

\* section 3 of the specification: is_overdue(invoice, today) and not
\* is_paid(invoice), on the properties the provider holds
OpenPastDueUnpaid(props, today) ==
  /\ toLowerCase(props.hs_invoice_status) = "open"
  /\ props.hs_due_date # 0
  /\ props.hs_due_date < today
  /\ ~isPaid(toLowerCase(props.hs_invoice_status), toLowerCase(props.hs_payment_status),
             parseFloat(IF props.hs_amount_paid = "" THEN "0" ELSE props.hs_amount_paid))

\* C12: whatever day the request arrives, the invoice an iteration of the
\* first loop has fetched is put on the list to archive exactly when it is
\* open, due before that day and not paid
SelectionIsOpenPastDueUnpaid ==
  \A today \in MockDays :
    bulk.invoice # NoInvoice =>
      ((\E i \in DOMAIN bulk.overdueUnpaidInvoices :
           bulk.overdueUnpaidInvoices[i].id = bulk.invoice.id)
         <=> OpenPastDueUnpaid(bulk.invoice.properties, today))

\* what the response may call the invoice id: its id or the number it was
\* selected under
Identifiers(id) ==
  {id} \cup {bulk.overdueUnpaidInvoices[i].number :
               i \in {j \in DOMAIN bulk.overdueUnpaidInvoices :
                        bulk.overdueUnpaidInvoices[j].id = id}}

\* C13: in the 200 response every invoice whose getById or archive call was
\* rejected has an entry in failedInvoices, with a reason
EveryItemFailureReported ==
  (ArchiveStepOver /\ bulk.res.status = 200) =>
    \A k \in DOMAIN crm.calls :
      (crm.calls[k].op \in {"getById", "archive"} /\ crm.calls[k].result = "failed") =>
        \E j \in DOMAIN bulk.res.failedInvoices :
          /\ bulk.res.failedInvoices[j].number \in Identifiers(crm.calls[k].id)
          /\ bulk.res.failedInvoices[j].reason # ""

\* C14: the handler goes on to the invoices only once the page it got has no
\* paging.next, that is once every page of associations has been read
PaginationFollowedToEnd ==
  (bulk.listed /\ bulk.pc \in {"fetching", "archiving", "flagging", "done"})
    => ~bulk.nextPage

\* the objects the cascade has written to so far, in the order of the calls
CascadeWrites == [i \in DOMAIN crm.calls |-> crm.calls[i].id]

\* the writes a cascade with this body has to make
CascadeDue ==
  <<InvoiceUnderRequest>> \o (IF single.dealId # "" THEN <<single.dealId>> ELSE << >>)
    \o <<Company>>

\* the cascade has got its client and is at a write or has answered
CascadeRunning ==
  /\ single.op = "cascade"
  /\ single.pc \in {"invoice", "deal", "company"} \/ (single.pc = "done" /\ crm.calls # << >>)

\* C15: the writes made so far are the first of invoice, deal (if a dealId
\* was given), company, each once and in that order, every one but the last
\* answered; when the cascade has answered, all of them were made, whatever
\* each answered
CascadeWritesInOrder ==
  CascadeRunning =>
    /\ Len(CascadeWrites) <= Len(CascadeDue)
    /\ CascadeWrites = SubSeq(CascadeDue, 1, Len(CascadeWrites))
    /\ \A i \in 1..(Len(crm.calls) - 1) : crm.calls[i].result \in {"ok", "failed"}
    /\ single.pc = "done" => CascadeWrites = CascadeDue

\* invoice write and deal write were rejected, the company write was made
CascadeWritesInOrderWitness ==
  /\ CascadeRunning /\ single.pc = "done" /\ single.dealId = "d1"
  /\ Len(crm.calls) = 3
  /\ crm.calls[1].result = "failed" /\ crm.calls[2].result = "failed"
  /\ crm.calls[3].result = "ok"

\* the write to the object was made and succeeded
WriteSucceeded(id) ==
  \E i \in DOMAIN crm.calls : crm.calls[i].id = id /\ crm.calls[i].result = "ok"

\* C16: a cascade that made its writes answers 200 with success=true, and
\* each of updatedInvoice, updatedDeal, updatedCompany is true exactly when
\* that write was made and succeeded
CascadeReportsEachWrite ==
  (CascadeRunning /\ single.pc = "done") =>
    /\ single.res.status = 200 /\ single.res.success
    /\ single.res.updatedInvoice <=> WriteSucceeded(InvoiceUnderRequest)
    /\ single.res.updatedDeal <=> (single.dealId # "" /\ WriteSucceeded(single.dealId))
    /\ single.res.updatedCompany <=> WriteSucceeded(Company)

\* every write was rejected: success=true and the three flags false
CascadeReportsEachWriteWitness ==
  /\ CascadeRunning /\ single.pc = "done" /\ single.dealId = "d1"
  /\ single.res.success
  /\ ~single.res.updatedInvoice /\ ~single.res.updatedDeal /\ ~single.res.updatedCompany
  /\ \A i \in DOMAIN crm.calls : crm.calls[i].result = "failed"

\* the invoice passes the gate under neither reading of overdue: it is not
\* open, past due and unpaid on any day, and not of overdue status and unpaid
FailsTheGate(props) ==
  /\ \A today \in MockDays : ~OpenPastDueUnpaid(props, today)
  /\ ~OverdueUnpaid(props)

\* C17: a bad-debt mark on an invoice that is paid or not overdue is
\* rejected: no provider call is made, no object is marked, and the answer
\* is not 200
GateBeforeSingleInvoiceAction ==
  (single.op = "cascade" /\ FailsTheGate(single.properties)) =>
    /\ crm.calls = << >>
    /\ crm.marked = {}
    /\ single.pc = "done" => single.res.status # 200

\* C18: the invoice an iteration of the bulk selection has fetched is
\* classified overdue only if its status is "open" and it has a due date
OverdueOnlyWhenOpenAndDated ==
  LET props == bulk.invoice.properties
  IN (bulk.invoice # NoInvoice
        /\ isOverdue(toLowerCase(props.hs_collection_status),
                     toLowerCase(props.hs_invoice_status)))
       => (toLowerCase(props.hs_invoice_status) = "open" /\ props.hs_due_date # 0)

\* C19: every invoice of one response is classified against the one day
\* captured for that response, by the handler that counts it and by the page
\* that flags it, also when the clock passes midnight in between
OneTodayPerResponse ==
  /\ \A i \in DOMAIN view.countedOn : view.countedOn[i] = view.today
  /\ \A i \in DOMAIN view.flags : view.flags[i].day = view.today

\* C20: a disconnect answers success and leaves no record of the tenant in
\* the store, the first time and when it directly follows a disconnect of the
\* same tenant; the second one finds nothing to delete
DisconnectIdempotent ==
  last.op = "disconnect" =>
    /\ last.status = 200 /\ last.body = "success"
    /\ ~last.recordLeft
    /\ ~MapHas(tokens, last.portal)
    /\ last.again => ~last.found

\* the second of two disconnects in a row of a tenant that had a record
\* before the first
DisconnectIdempotentWitness ==
  /\ last.op = "disconnect" /\ last.again /\ last.portal \in Portals
  /\ last.status = 200 /\ ~last.found
  /\ ~MapHas(tokens, last.portal)
  /\ last.afterDelete

\* C21: a step that answers GET /auth/status leaves the token store and the
\* CSRF registry as they were and calls the provider neither for a refresh
\* nor for anything else, whatever the tenant's record (none, fresh, stale)
StatusHasNoSideEffects ==
  [][last'.op = "status" =>
       /\ tokens' = tokens
       /\ oauthStates' = oauthStates
       /\ minted' = minted
       /\ last'.refreshCalls = 0 /\ last'.crmCalls = 0]_vars

\* the status of a tenant whose record is stale was asked, and the record is
\* still in the store
StatusHasNoSideEffectsWitness ==
  /\ last.op = "status" /\ last.found /\ last.stale /\ last.status = 200
  /\ MapHas(tokens, last.portal)
  /\ IsStale(tokens[last.portal], now)

\* C22: a request that starts for a tenant whose stored record expires later
\* than now + 60 gets the handle of the stored access token, calls no
\* refresh and leaves the store as it was
FreshTokenUsedAsStored ==
  [][\A r \in Reqs :
       LET p == req'[r].portal
       IN (/\ Free(req[r]) /\ req'[r].op = "company"
           /\ p # NoPortal /\ MapHas(tokens, p)
           /\ tokens[p].expiresAt > NowSec(now) + RefreshSkew)
          => /\ req'[r].pc = "crm"
             /\ req'[r].handle = tokens[p].accessToken
             /\ req'[r].refreshCalls = 0
             /\ tokens' = tokens
             /\ minted' = minted]_vars

\* a request holds the handle of the fresh record the store holds
FreshTokenUsedAsStoredWitness ==
  \E r \in Reqs :
    /\ req[r].op = "company" /\ req[r].pc = "crm"
    /\ req[r].found /\ ~req[r].stale /\ req[r].refreshCalls = 0
    /\ MapHas(tokens, req[r].portal)
    /\ tokens[req[r].portal].expiresAt > NowSec(now) + RefreshSkew
    /\ req[r].handle = tokens[req[r].portal].accessToken

\* C23: when a refresh succeeds, the store then holds under the request's
\* tenant a record with the newly granted access token and with the
\* provider's new refresh token if it sent one, else the refresh token the
\* request presented; the request's handle is the new access token and no
\* other tenant's record changes
RefreshStoresNewRecord ==
  [][\A r \in Reqs :
       (req[r].pc = "refreshing" /\ req'[r] # req[r] /\ minted' = minted + 1)
       => LET p == req[r].portal
          IN /\ MapHas(tokens', p)
             /\ tokens'[p].accessToken = minted'
             /\ tokens'[p].refreshToken = (IF req'[r].rotated THEN minted' ELSE req[r].rt)
             /\ req'[r].pc = "crm"
             /\ req'[r].handle = tokens'[p].accessToken
             /\ \A q \in DOMAIN tokens \ {p} : MapHas(tokens', q) /\ tokens'[q] = tokens[q]]_vars

\* a refresh that sent no refresh token of its own has succeeded: the record
\* keeps the prior refresh token under a new access token
RefreshStoresNewRecordWitness ==
  \E r \in Reqs :
    /\ req[r].pc = "crm" /\ req[r].stale /\ req[r].refreshCalls = 1
    /\ ~req[r].refreshFailed /\ ~req[r].rotated
    /\ MapHas(tokens, req[r].portal)
    /\ tokens[req[r].portal].accessToken = req[r].handle
    /\ tokens[req[r].portal].refreshToken = req[r].rt
    /\ tokens[req[r].portal].refreshToken # tokens[req[r].portal].accessToken

\* C24: a request that names no tenant, or a tenant the store has no record
\* of, gets the handle of the private token when one is configured and no
\* handle otherwise (it is then answered at once, without a call to the CRM);
\* either way no refresh is called and the store is left as it was
MissingTokenFallsBack ==
  [][/\ \A r \in Reqs :
          LET p == req'[r].portal
          IN (/\ Free(req[r]) /\ req'[r].op = "company"
              /\ (p = NoPortal \/ ~MapHas(tokens, p)))
             => /\ cfg.privateToken
                /\ req'[r].pc = "crm" /\ req'[r].handle = PrivateHandle
                /\ req'[r].refreshCalls = 0
                /\ tokens' = tokens /\ minted' = minted
     /\ (/\ last'.op = "company" /\ req' = req
         /\ (last'.portal = NoPortal \/ ~MapHas(tokens, last'.portal)))
        => /\ ~cfg.privateToken
           /\ last'.body \in {"mock", "not_connected"}
           /\ last'.refreshCalls = 0 /\ last'.crmCalls = 0
           /\ tokens' = tokens /\ minted' = minted]_vars

\* a request for a tenant without a record holds the handle of the private token
MissingTokenFallsBackWitness ==
  \E r \in Reqs :
    /\ req[r].op = "company" /\ req[r].pc = "crm"
    /\ req[r].portal \in Portals /\ ~req[r].found
    /\ ~MapHas(tokens, req[r].portal)
    /\ cfg.privateToken /\ req[r].handle = PrivateHandle
    /\ req[r].refreshCalls = 0

\* C25: right after an authorization start the registry holds the state just
\* issued, holds no entry older than ten minutes, and still holds every
\* entry it held before that is younger than ten minutes
SweepOnIssue ==
  [][issued' = issued + 1 =>
       /\ MapHas(oauthStates', issued')
       /\ oauthStates'[issued'].createdAt = now
       /\ \A s \in DOMAIN oauthStates' : now - oauthStates'[s].createdAt <= TenMinutesMs
       /\ \A s \in DOMAIN oauthStates :
            now - oauthStates[s].createdAt < TenMinutesMs
            => MapHas(oauthStates', s) /\ oauthStates'[s] = oauthStates[s]]_vars

\* the state just issued stands in the registry beside one issued less than
\* ten minutes ago, and one issued more than ten minutes ago is gone
SweepOnIssueWitness ==
  /\ issued = 3
  /\ DOMAIN oauthStates = {2, 3}
  /\ oauthStates[3].createdAt = now
  /\ now - oauthStates[2].createdAt < TenMinutesMs
  /\ now > TenMinutesMs

Range(seq) == {seq[i] : i \in DOMAIN seq}

\* C26: a company read in which the fetch of some deal or invoice failed
\* still answers 200, and its lists hold exactly the deals and the invoices
\* whose fetch succeeded, each once and in the order of the pages
ReadFanOutOmitsFailures ==
  (view.pc \in {"rendering", "shown"} /\ view.itemFailed) =>
    /\ view.status = 200
    /\ Range(view.deals) = view.okDeals /\ Len(view.deals) = Cardinality(view.okDeals)
    /\ Range(view.invoiceIds) = view.okInvoices
    /\ Len(view.invoiceIds) = Cardinality(view.okInvoices)
    /\ Len(view.invoices) = Len(view.invoiceIds)
    /\ \A i, j \in DOMAIN view.deals : i < j => view.deals[i] < view.deals[j]
    /\ \A i, j \in DOMAIN view.invoiceIds : i < j => view.invoiceIds[i] < view.invoiceIds[j]

\* the first deal and the first invoice failed, the second of each is in the
\* response, which is a 200
ReadFanOutOmitsFailuresWitness ==
  /\ view.pc \in {"rendering", "shown"} /\ view.status = 200
  /\ view.dealsListed = 2 /\ view.deals = <<2>>
  /\ view.listed = 2 /\ view.invoiceIds = <<2>>
  /\ view.itemFailed

\* C27: every response of the bulk archive made with a client, the 200 and
\* the 500 alike, carries an archivedCount equal to the length of its
\* archivedInvoices and to the number of archive calls of the request that
\* succeeded
ArchivedCountIsSucceededCalls ==
  (bulk.pc = "done" /\ ~bulk.mock) =>
    /\ bulk.res.archivedCount = Len(bulk.res.archivedInvoices)
    /\ bulk.res.archivedCount = Len(SelectedNumbers("ok"))

\* C28: when two requests refresh the same tenant's stale token and one of
\* them has saved its refreshed record (it holds the handle of the record in
\* the store), the failure of the other one's refresh leaves that record in
\* the store
FailedRefreshKeepsRefreshedRecord ==
  [][\A r \in Reqs :
       LET p == req[r].portal
       IN (/\ req[r].pc = "refreshing" /\ req'[r] # req[r] /\ minted' = minted
           /\ \E q \in Reqs \ {r} :
                /\ req[q].pc = "crm" /\ req[q].portal = p
                /\ req[q].refreshCalls = 1 /\ ~req[q].refreshFailed
                /\ MapHas(tokens, p) /\ tokens[p].accessToken = req[q].handle)
          => (MapHas(tokens', p) /\ tokens'[p] = tokens[p])]_vars

\* C29: the step that follows a disconnect of a tenant puts a record of that
\* tenant into the store only if it is an OAuth callback that saved one for
\* it, whatever else of that tenant is in flight
DisconnectIsFinal ==
  [][(/\ last.op = "disconnect" /\ last.portal # NoPortal
      /\ MapHas(tokens', last.portal))
     => (last'.op = "callback" /\ last'.saved /\ last'.portal = last.portal)]_vars

\* C30: in the archive of one invoice the company update is the third call
\* of the request, made after getById succeeded, the invoice passed the
\* overdue-and-unpaid gate and the archive call succeeded; a failed fetch, a
\* failed gate or a failed archive ends the request without a company update;
\* when the archive succeeded and the update failed the answer is 500 and the
\* invoice is archived
SingleArchiveBeforeFlag ==
  (single.op = "archive" /\ ~single.mock) =>
    /\ \A i \in DOMAIN crm.calls :
         crm.calls[i].op = "update" =>
           /\ i = 3
           /\ crm.calls[1].op = "getById" /\ crm.calls[1].result = "ok"
           /\ OverdueUnpaid(single.properties)
           /\ crm.calls[2].op = "archive" /\ crm.calls[2].result = "ok"
    /\ (single.pc = "done" /\ single.res.status # 200) => Len(crm.calls) <= 3
    /\ (single.pc = "done" /\ Len(crm.calls) < 3) => single.res.status \in {400, 500}
    /\ (single.pc = "done" /\ Len(crm.calls) = 3 /\ crm.calls[3].result = "failed")
         => (single.res.status = 500 /\ InvoiceUnderRequest \in crm.archived)
    /\ (single.pc = "done" /\ single.res.status = 400)
         => (Len(crm.calls) = 1 /\ ~OverdueUnpaid(single.properties))

\* the invoice was archived, the company update was rejected, the answer is 500
SingleArchiveBeforeFlagWitness ==
  /\ single.op = "archive" /\ ~single.mock /\ single.pc = "done"
  /\ single.res.status = 500
  /\ Len(crm.calls) = 3 /\ crm.calls[2].result = "ok" /\ crm.calls[3].result = "failed"
  /\ InvoiceUnderRequest \in crm.archived
  /\ ~crm.badDebt

====
